---- MODULE Spec2Model ----
(***************************************************************************)
(* A model of wasm-tools: the module combiner, ResolveImports             *)
(* (resolve-imports.cc) followed by CombineModules (combine-modules.cc),   *)
(* the memory access checker (access-checker.cc), the memory index rebaser *)
(* and the ProgramMain functions of wasmlink, import-check and             *)
(* export-audit.                                                           *)
(* A Module is a name and an ordered list of fields; the per-kind vectors  *)
(* (funcs, globals, exports, ...) and the binding tables of the IR are     *)
(* views computed from the field list.                                     *)
(***************************************************************************)
EXTENDS Integers, Sequences, FiniteSets, TLC

VARIABLES
  module,          \* Module* module      : [name, fields]
  libmodule,       \* Module* libmodule   : [name, fields]
  output,          \* Module* result of CombineModules : [name, fields]
  temp_module,     \* ModuleFieldList temp_module
  temp_libmodule,  \* ModuleFieldList temp_libmodule
  import_map,      \* unordered_map<string, string> import_map
  resolve_result,  \* "NotRun" | "Ok" | "Error" : what ResolveImports returned
  pc,              \* position of the caller
  module0,         \* module as given to ResolveImports
  libmodule0,      \* libmodule as given to ResolveImports
  cm_module,       \* module as given to CombineModules
  cm_libmodule,    \* libmodule as given to CombineModules
  rw_idx_,         \* Index MemoryAccessChecker::rw_idx_
  memidx_base_,    \* Index MemoryIndexRebaser::memidx_base_
  result_,         \* Result result_ of the checker and of the rebaser
  cursor,          \* how many iterations of the loops of VisitModule are done
  calls,           \* the delegate callbacks made so far, with what they returned
  ret,             \* "None" | "Ok" | "Error" : what RebaseIndexModule returned
  result,          \* Result result of ProgramMain
  result_lib,      \* Result result_lib of ProgramMain (wasmlink)
  steps,           \* the calls ProgramMain made so far, with what they returned
  exit_code,       \* what ProgramMain returned, -1 while it runs
  s_validate,      \* static bool s_validate
  s_resolve_names, \* static bool s_resolve_names
  s_allowed,       \* s_allowed_import_modules, s_allowed_exports
  s_not_allowed,   \* s_not_allowed_import_modules, s_not_allowed_exports
  module_exports,  \* module.exports of export-audit
  it               \* the iterator of the loop over imports or exports

\* the variables of ResolveImports and CombineModules
linkvars == <<libmodule, output, temp_module, temp_libmodule, import_map,
              resolve_result, libmodule0, cm_module, cm_libmodule>>

\* the variables of the access checker and of the index rebaser
visitorvars == <<rw_idx_, memidx_base_, result_, cursor, calls, ret>>

\* the variables of the three ProgramMain functions
mainvars == <<result, result_lib, steps, exit_code, s_validate, s_resolve_names,
              s_allowed, s_not_allowed, module_exports, it>>

vars == <<module, libmodule, output, temp_module, temp_libmodule, import_map,
          resolve_result, pc, module0, libmodule0, cm_module, cm_libmodule,
          rw_idx_, memidx_base_, result_, cursor, calls, ret,
          result, result_lib, steps, exit_code, s_validate, s_resolve_names,
          s_allowed, s_not_allowed, module_exports, it>>

----------------------------------------------------------------------------
(* Bounds of the model. *)

\* longest field list of an input module of the combiner specification
MaxFields == 2
\* longest function body (in instructions) of the resolver, checker and
\* rebaser specifications
MaxExprs == 2
\* largest rw_idx given to the access checker
MaxIndex == 2

----------------------------------------------------------------------------
(* Data model: Var, Expr, ModuleField. *)

Kinds == {"Func", "Global", "Memory", "Table", "Tag"}

NameVar(n) == [type |-> "Name", name |-> n]
IndexVar(i) == [type |-> "Index", index |-> i]

\* an instruction with the Vars it carries, in the order the visitor reads them
Expr(op, vs) == [op |-> op, vars |-> vs]

ImportField(mn, fn, k, n) ==
  [type |-> "Import", module_name |-> mn, field_name |-> fn, kind |-> k, name |-> n]
FuncField(n, es) == [type |-> "Func", name |-> n, exprs |-> es]
GlobalField(n, es) == [type |-> "Global", name |-> n, init_expr |-> es]
MemoryField(n) == [type |-> "Memory", name |-> n]
TableField(n) == [type |-> "Table", name |-> n]
TagField(n) == [type |-> "Tag", name |-> n]
ExportField(n, k, v) == [type |-> "Export", name |-> n, kind |-> k, var |-> v]
ElemSegmentField(tv, off, els) ==
  [type |-> "ElemSegment", table_var |-> tv, offset |-> off, elem_exprs |-> els]
DataSegmentField(mv, off) == [type |-> "DataSegment", memory_var |-> mv, offset |-> off]
StartField(v) == [type |-> "Start", var |-> v]

Null == [type |-> "Null"]

IsImport(f) == f.type = "Import"
IsNotImport(f) == f.type # "Import"

\* the index space a field declares into, "None" for a field that declares nothing
DeclKind(f) ==
  IF f.type = "Import" THEN f.kind
  ELSE IF f.type \in Kinds THEN f.type
  ELSE "None"

RECURSIVE Flatten(_)
Flatten(ss) == IF ss = <<>> THEN <<>> ELSE Head(ss) \o Flatten(Tail(ss))

\* module->funcs, module->globals, ... : imported and local declarations of a
\* kind, in field order
Decls(m, k) ==
  LET OfKind(f) == DeclKind(f) = k IN SelectSeq(m.fields, OfKind)

\* module->exports
Exports(m) == SelectSeq(m.fields, LAMBDA f : f.type = "Export")

\* module->imports
Imports(m) == SelectSeq(m.fields, IsImport)

\* Module::GetFunc / GetGlobal / GetMemory / GetTable / GetTag: the declaration
\* a Var addresses, by binding (non-empty names only) or by index; Null when
\* the name is unbound or the index is out of range
GetDecl(m, k, var) ==
  LET ds == Decls(m, k) IN
  IF var.type = "Name"
  THEN IF var.name # "" /\ \E i \in DOMAIN ds : ds[i].name = var.name
       THEN ds[CHOOSE i \in DOMAIN ds :
                 /\ ds[i].name = var.name
                 /\ \A j \in DOMAIN ds : ds[j].name = var.name => i <= j]
       ELSE Null
  ELSE IF var.index < Len(ds) THEN ds[var.index + 1] ELSE Null

\* export_bindings.FindIndex(field_name): position in module->exports, 0 when
\* there is no such export (the code's kInvalidIndex)
FindExport(m, field_name) ==
  LET es == Exports(m) IN
  IF \E i \in DOMAIN es : es[i].name = field_name
  THEN CHOOSE i \in DOMAIN es :
         /\ es[i].name = field_name
         /\ \A j \in DOMAIN es : es[j].name = field_name => i <= j
  ELSE 0

----------------------------------------------------------------------------
(* CombineModules (combine-modules.cc). *)

\* the library loop's test applied to the main module's imports
RetainModuleImport_ByKind(f, lib) == f.kind # "Memory"

\* line 24: an import of module is appended to result unless it names libmodule
RetainModuleImport(f, lib) == f.module_name # lib.name

\* line 37: an import of libmodule is appended to result unless it is a memory
RetainLibImport(f, m) == f.kind # "Memory"

\* the two temporaries appended in the wrong order
AppendRest_Swapped(fields, tm, tl) == (fields \o tl) \o tm

\* module's other fields put before the imports already in result
AppendRest_Front(fields, tm, tl) == (tm \o fields) \o tl

\* the library's temporary never appended
AppendRest_NoLib(fields, tm, tl) == fields \o tm

\* lines 46-49: result->AppendFields(&temp_module); AppendFields(&temp_libmodule)
AppendRest(fields, tm, tl) == (fields \o tm) \o tl

----------------------------------------------------------------------------
(* ResolveImports (resolve-imports.cc): import-map construction. *)

EmptyMap == [n \in {} |-> ""]

\* operator[] instead of insert: a later import overwrites the entry
MapInsert_Overwrite(map, k, v) ==
  [n \in DOMAIN map \cup {k} |-> IF n = k THEN v ELSE map[n]]

\* import_map->insert({name, export_name}): an existing key keeps its value
MapInsert(map, k, v) == IF k \in DOMAIN map THEN map ELSE map @@ (k :> v)

\* line 417: only imports naming libmodule enter the map
ImportFromLib(f, lib) == f.module_name = lib.name

\* lines 459-489: the name of the declaration the export addresses, by the
\* export's kind; the empty string when the lookup returns null
ExportTargetName(lib, export) ==
  LET d == GetDecl(lib, export.kind, export.var) IN
  IF d = Null THEN "" ELSE d.name

\* the imports of module for which line 456 reads libmodule->exports at
\* kInvalidIndex
UnboundImports(m, lib) ==
  LET Unbound(f) == ImportFromLib(f, lib) /\ FindExport(lib, f.field_name) = 0
  IN SelectSeq(Imports(m), Unbound)

\* what the read past the end of libmodule->exports can produce: the process
\* dies, or a stray Export whose lookup gives no name or some declaration's name
UBOutcomes(lib) ==
  {"crash", ""} \cup {lib.fields[i].name : i \in {j \in DOMAIN lib.fields :
                                                   DeclKind(lib.fields[j]) # "None"}}

\* lines 416-493, over the imports still to be visited; ubs are the outcomes
\* of the out-of-range reads still to happen
RECURSIVE ImportMapLoop(_, _, _, _)
ImportMapLoop(imports, lib, map, ubs) ==
  IF imports = <<>> THEN [map |-> map, crashed |-> FALSE]
  ELSE LET f == Head(imports)
           export_index == FindExport(lib, f.field_name)
       IN IF ~ImportFromLib(f, lib)
          THEN ImportMapLoop(Tail(imports), lib, map, ubs)
          ELSE IF export_index = 0
          THEN IF Head(ubs) = "crash"
               THEN [map |-> map, crashed |-> TRUE]
               ELSE ImportMapLoop(Tail(imports), lib,
                                  MapInsert(map, f.name, Head(ubs)), Tail(ubs))
          ELSE ImportMapLoop(Tail(imports), lib,
                             MapInsert(map, f.name,
                                       ExportTargetName(lib, Exports(lib)[export_index])),
                             ubs)

----------------------------------------------------------------------------
(* ResolveImports: the rewriting traversal (ImportResolver). *)

\* the index space an instruction's Vars are resolved in by the ImportResolver
\* delegate; "None" for an instruction the delegate leaves to DelegateNop
OpKind(op) ==
  CASE op \in {"Call", "RefFunc", "ReturnCall"} -> "Func"
    [] op \in {"CallIndirect", "ReturnCallIndirect", "TableCopy", "TableInit",
               "TableGet", "TableSet", "TableGrow", "TableSize", "TableFill"} -> "Table"
    [] op \in {"GlobalGet", "GlobalSet"} -> "Global"
    [] op \in {"Load", "Store", "MemoryCopy", "MemoryFill", "MemoryGrow",
               "MemoryInit", "MemorySize"} -> "Memory"
    [] op \in {"Throw", "Catch"} -> "Tag"
    [] OTHER -> "None"

Loc(f, part, e, v) == [f |-> f, part |-> part, e |-> e, v |-> v]

\* visitor_.VisitExprList: the Vars of an expression list, in visiting order
ExprListLocs(i, part, exprs) ==
  Flatten([e \in 1..Len(exprs) |->
             IF OpKind(exprs[e].op) = "None" THEN <<>>
             ELSE [v \in 1..Len(exprs[e].vars) |-> Loc(i, part, e, v)]])

\* VisitFunc, VisitGlobal, VisitExport, VisitElemSegment, VisitDataSegment,
\* VisitStart: the Vars of one field, in visiting order
FieldLocs(m, i) ==
  LET f == m.fields[i] IN
  CASE f.type = "Func" -> ExprListLocs(i, "exprs", f.exprs)
    [] f.type = "Global" -> ExprListLocs(i, "init_expr", f.init_expr)
    [] f.type = "Export" -> <<Loc(i, "var", 0, 0)>>
    [] f.type = "ElemSegment" ->
         <<Loc(i, "table_var", 0, 0)>> \o ExprListLocs(i, "offset", f.offset)
         \o Flatten([e \in 1..Len(f.elem_exprs) |->
                       IF f.elem_exprs[e].op = "RefFunc"
                       THEN <<Loc(i, "elem_exprs", e, 1)>> ELSE <<>>])
    [] f.type = "DataSegment" ->
         <<Loc(i, "memory_var", 0, 0)>> \o ExprListLocs(i, "offset", f.offset)
    [] f.type = "Start" -> <<Loc(i, "var", 0, 0)>>
    [] OTHER -> <<>>

\* the fields of one type, by position, in field order (module->funcs without
\* the imported ones, module->globals, module->exports, ...)
SectionLocs(m, type) ==
  Flatten([i \in 1..Len(m.fields) |->
             IF m.fields[i].type = type THEN FieldLocs(m, i) ELSE <<>>])

\* lines 397-410: funcs, globals, tags, exports, elem segments, data segments,
\* starts
TraversalOrder == <<"Func", "Global", "Tag", "Export", "ElemSegment", "DataSegment", "Start">>

RefLocs(m) ==
  Flatten([s \in 1..Len(TraversalOrder) |-> SectionLocs(m, TraversalOrder[s])])

LocVar(m, loc) ==
  LET f == m.fields[loc.f] IN
  CASE loc.part = "exprs" -> f.exprs[loc.e].vars[loc.v]
    [] loc.part = "init_expr" -> f.init_expr[loc.e].vars[loc.v]
    [] loc.part = "offset" -> f.offset[loc.e].vars[loc.v]
    [] loc.part = "elem_exprs" -> f.elem_exprs[loc.e].vars[loc.v]
    [] loc.part = "table_var" -> f.table_var
    [] loc.part = "memory_var" -> f.memory_var
    [] loc.part = "var" -> f.var

\* which ResolveImportFor<Kind>Var the visit of a Var calls
LocKind(m, loc) ==
  LET f == m.fields[loc.f] IN
  CASE loc.part = "exprs" -> OpKind(f.exprs[loc.e].op)
    [] loc.part = "init_expr" -> OpKind(f.init_expr[loc.e].op)
    [] loc.part = "offset" -> OpKind(f.offset[loc.e].op)
    [] loc.part = "elem_exprs" -> "Func"
    [] loc.part = "table_var" -> "Table"
    [] loc.part = "memory_var" -> "Memory"
    [] loc.part = "var" -> IF f.type = "Export" THEN f.kind ELSE "Func"

\* lines 345-368: VisitExport drops the Result of the lookup; every other
\* visit wraps it in CHECK_RESULT
LocChecked(m, loc) == m.fields[loc.f].type # "Export"

SetLocVar(m, loc, var) ==
  CASE loc.part = "exprs" ->
         [m EXCEPT !.fields[loc.f].exprs[loc.e].vars[loc.v] = var]
    [] loc.part = "init_expr" ->
         [m EXCEPT !.fields[loc.f].init_expr[loc.e].vars[loc.v] = var]
    [] loc.part = "offset" ->
         [m EXCEPT !.fields[loc.f].offset[loc.e].vars[loc.v] = var]
    [] loc.part = "elem_exprs" ->
         [m EXCEPT !.fields[loc.f].elem_exprs[loc.e].vars[loc.v] = var]
    [] loc.part = "table_var" -> [m EXCEPT !.fields[loc.f].table_var = var]
    [] loc.part = "memory_var" -> [m EXCEPT !.fields[loc.f].memory_var = var]
    [] loc.part = "var" -> [m EXCEPT !.fields[loc.f].var = var]

\* the import map never consulted
ResolveImportForVar_NoMap(name, var, map) ==
  IF name # "" THEN NameVar(name) ELSE var

\* only Vars that are names already are rewritten
ResolveImportForVar_NamesOnly(name, var, map) ==
  IF name # "" /\ var.type = "Name"
  THEN IF name \in DOMAIN map THEN NameVar(map[name]) ELSE NameVar(name)
  ELSE var

\* lines 108-122: with a non-empty declaration name the Var becomes a name,
\* the mapped one when the name is a key of the import map
ResolveImportForVar(name, var, map) ==
  IF name # ""
  THEN IF name \in DOMAIN map THEN NameVar(map[name]) ELSE NameVar(name)
  ELSE var

\* lines 395-413 over the Vars still to be visited: a failed lookup under
\* CHECK_RESULT returns Error at once
RECURSIVE VisitLocs(_, _, _, _)
VisitLocs(m, map, locs, i) ==
  IF i > Len(locs) THEN [module |-> m, result |-> "Ok"]
  ELSE LET loc == locs[i]
           var == LocVar(m, loc)
           d == GetDecl(m, LocKind(m, loc), var)
       IN IF d = Null
          THEN IF LocChecked(m, loc)
               THEN [module |-> m, result |-> "Error"]
               ELSE VisitLocs(m, map, locs, i + 1)
          ELSE VisitLocs(SetLocVar(m, loc, ResolveImportForVar(d.name, var, map)),
                         map, locs, i + 1)

\* a traversal that restores module when a visit fails
VisitModule_Rollback(m, map) ==
  LET r == VisitLocs(m, map, RefLocs(m), 1) IN
  IF r.result = "Error" THEN [module |-> m, result |-> "Error"] ELSE r

VisitModule(m, map) == VisitLocs(m, map, RefLocs(m), 1)

----------------------------------------------------------------------------
(* The access checker (access-checker.cc): MemoryAccessChecker. *)

\* ~0 as an Index: an Index of 2^31 or more is written as the negative number
\* that has the same 32 bits
kInvalidIndex == -1

\* a < b on two Index values (unsigned comparison)
IndexLess(a, b) == IF a < 0 THEN b < 0 /\ a < b ELSE b < 0 \/ a < b

\* Module::GetMemoryIndex: the index of an index-form Var, the position bound
\* to the name of a name-form Var, kInvalidIndex for an unbound name
GetMemoryIndex(m, var) ==
  LET ds == Decls(m, "Memory") IN
  IF var.type = "Index" THEN var.index
  ELSE IF var.name # "" /\ \E i \in DOMAIN ds : ds[i].name = var.name
       THEN (CHOOSE i \in DOMAIN ds :
               /\ ds[i].name = var.name
               /\ \A j \in DOMAIN ds : ds[j].name = var.name => i <= j) - 1
       ELSE kInvalidIndex

\* the threshold itself counted as read-only
CheckMemoryAccess_Inclusive(m, memidx, rw) ==
  IF GetMemoryIndex(m, memidx) = rw \/ IndexLess(GetMemoryIndex(m, memidx), rw)
  THEN "Error" ELSE "Ok"

\* lines 147-152
CheckMemoryAccess(m, memidx, rw) ==
  IF IndexLess(GetMemoryIndex(m, memidx), rw) THEN "Error" ELSE "Ok"

\* a load checked like a store
OnLoadExpr_Checked(m, expr, rw) == CheckMemoryAccess(m, expr.vars[1], rw)

\* lines 74-76
OnLoadExpr(m, expr, rw) == "Ok"

\* the source of the copy checked instead of the destination
OnMemoryCopyExpr_Source(m, expr, rw) == CheckMemoryAccess(m, expr.vars[1], rw)

\* lines 78-80: expr.vars is <<srcmemidx, destmemidx>>
OnMemoryCopyExpr(m, expr, rw) == CheckMemoryAccess(m, expr.vars[2], rw)

\* lines 94-96
OnMemorySizeExpr(m, expr, rw) == "Ok"

\* lines 82-92 and 98-100: memory.fill, memory.grow, memory.init and store
OnStoreExpr(m, expr, rw) == CheckMemoryAccess(m, expr.vars[1], rw)

\* the callback of MemoryAccessChecker the ExprVisitor makes for an
\* instruction; DelegateNop's, which returns Ok, for every other instruction
CheckerOnExpr(m, expr, rw) ==
  CASE expr.op = "Load" -> OnLoadExpr(m, expr, rw)
    [] expr.op = "MemoryCopy" -> OnMemoryCopyExpr(m, expr, rw)
    [] expr.op = "MemorySize" -> OnMemorySizeExpr(m, expr, rw)
    [] expr.op \in {"MemoryFill", "MemoryGrow", "MemoryInit", "Store"} ->
         OnStoreExpr(m, expr, rw)
    [] OTHER -> "Ok"

Call(f, part, e, r) == [f |-> f, part |-> part, e |-> e, result |-> r]

\* visitor_.VisitExprList from the e-th instruction on: the callbacks made,
\* the ExprVisitor returning at the first callback that returns Error
RECURSIVE CheckerVisitExprList(_, _, _, _, _, _)
CheckerVisitExprList(m, f, part, exprs, e, rw) ==
  IF e > Len(exprs) THEN <<>>
  ELSE LET r == CheckerOnExpr(m, exprs[e], rw) IN
       <<Call(f, part, e, r)>>
       \o (IF r = "Error" THEN <<>>
           ELSE CheckerVisitExprList(m, f, part, exprs, e + 1, rw))

\* lines 102-126: VisitFunc, VisitExport, VisitGlobal, VisitTag,
\* VisitElemSegment, VisitDataSegment on the i-th field; what the visitor
\* returns is dropped by all of them
CheckerVisitField(m, i, rw) ==
  LET f == m.fields[i] IN
  CASE f.type = "Func" -> CheckerVisitExprList(m, i, "exprs", f.exprs, 1, rw)
    [] f.type = "Global" -> CheckerVisitExprList(m, i, "init_expr", f.init_expr, 1, rw)
    [] f.type \in {"ElemSegment", "DataSegment"} ->
         CheckerVisitExprList(m, i, "offset", f.offset, 1, rw)
    [] OTHER -> <<>>

\* the vector of the module a field is in, among those VisitModule loops over
\* (an import of a function, global or tag is in funcs, globals or tags)
VectorOf(f) ==
  IF f.type = "Import"
  THEN IF f.kind \in {"Func", "Global", "Tag"} THEN f.kind ELSE "None"
  ELSE IF f.type \in {"Func", "Global", "Tag", "Export", "ElemSegment", "DataSegment"}
       THEN f.type ELSE "None"

\* lines 131-142: funcs, exports, globals, tags, elem_segments, data_segments
VisitModuleOrder == <<"Func", "Export", "Global", "Tag", "ElemSegment", "DataSegment">>

\* the positions of the fields VisitModule visits, in visiting order
VisitModuleFields(m) ==
  LET positions == [i \in 1..Len(m.fields) |-> i]
      In(s) == SelectSeq(positions, LAMBDA i : VectorOf(m.fields[i]) = VisitModuleOrder[s])
  IN In(1) \o In(2) \o In(3) \o In(4) \o In(5) \o In(6)

----------------------------------------------------------------------------
(* The index rebaser: MemoryIndexRebaser. *)

\* module->num_memory_imports
NumMemoryImports(m) ==
  Cardinality({i \in DOMAIN m.fields :
                 IsImport(m.fields[i]) /\ m.fields[i].kind = "Memory"})

\* Var::index() of a name-form Var reads the member of the union that is not
\* the active one: the assert in it ends the process, or some Index comes back
IndexOfNameOutcomes ==
  { [crash |-> TRUE, index |-> 0],
    [crash |-> FALSE, index |-> 0],
    [crash |-> FALSE, index |-> 5] }

\* the instructions whose memory Vars the rebaser's callbacks hand to
\* RebaseMemoryIndex (lines 74-108)
RebasedOps ==
  {"Load", "Store", "MemoryCopy", "MemoryFill", "MemoryGrow", "MemoryInit", "MemorySize"}

\* the base added without the - 1
RebaseMemoryIndex_NoMinusOne(m, var, base, read) ==
  IF ~IndexLess(GetMemoryIndex(m, var), NumMemoryImports(m))
  THEN IndexVar((IF var.type = "Index" THEN var.index ELSE read.index) + base)
  ELSE var

\* lines 155-160: memidx->set_index(memidx->index() + memidx_base_ - 1) when
\* the memory is not an imported one; read is what index() gives for a
\* name-form Var
RebaseMemoryIndex(m, var, base, read) ==
  IF ~IndexLess(GetMemoryIndex(m, var), NumMemoryImports(m))
  THEN IndexVar(((IF var.type = "Index" THEN var.index ELSE read.index) + base) - 1)
  ELSE var

\* whether RebaseMemoryIndex calls index() on a name-form Var
ReadsIndexOfName(m, var) ==
  var.type = "Name" /\ ~IndexLess(GetMemoryIndex(m, var), NumMemoryImports(m))

\* a callback of the rebaser on one instruction, from its v-th Var on; reads
\* are the outcomes of the calls of index() on name-form Vars still to come
RECURSIVE RebaserOnExpr(_, _, _, _, _)
RebaserOnExpr(m, expr, v, base, reads) ==
  IF expr.op \notin RebasedOps \/ v > Len(expr.vars)
  THEN [expr |-> expr, crashed |-> FALSE, reads |-> reads]
  ELSE LET var == expr.vars[v]
           bad == ReadsIndexOfName(m, var)
       IN IF bad /\ Head(reads).crash
          THEN [expr |-> expr, crashed |-> TRUE, reads |-> reads]
          ELSE RebaserOnExpr(
                 m,
                 [expr EXCEPT !.vars[v] =
                    RebaseMemoryIndex(m, var, base,
                                      IF bad THEN Head(reads)
                                      ELSE [crash |-> FALSE, index |-> 0])],
                 v + 1, base,
                 IF bad THEN Tail(reads) ELSE reads)

\* visitor_.VisitExprList from the e-th instruction on: every callback of the
\* rebaser returns Ok, so the whole list is visited
RECURSIVE RebaserVisitExprList(_, _, _, _, _)
RebaserVisitExprList(m, exprs, e, base, reads) ==
  IF e > Len(exprs) THEN [exprs |-> exprs, crashed |-> FALSE]
  ELSE LET r == RebaserOnExpr(m, exprs[e], 1, base, reads) IN
       IF r.crashed THEN [exprs |-> exprs, crashed |-> TRUE]
       ELSE RebaserVisitExprList(m, [exprs EXCEPT ![e] = r.expr], e + 1, base, r.reads)

\* the expression list VisitFunc, VisitGlobal, VisitElemSegment or
\* VisitDataSegment walks in a field, the empty one for VisitExport and VisitTag
VisitedExprs(f) ==
  CASE f.type = "Func" -> f.exprs
    [] f.type = "Global" -> f.init_expr
    [] f.type \in {"ElemSegment", "DataSegment"} -> f.offset
    [] OTHER -> <<>>

SetVisitedExprs(f, exprs) ==
  CASE f.type = "Func" -> [f EXCEPT !.exprs = exprs]
    [] f.type = "Global" -> [f EXCEPT !.init_expr = exprs]
    [] f.type \in {"ElemSegment", "DataSegment"} -> [f EXCEPT !.offset = exprs]
    [] OTHER -> f

\* how many calls of index() on a name-form Var a walk of an expression list
\* makes at most (an instruction has one memory Var, memory.copy two)
NameReads(m, exprs) ==
  Cardinality({<<e, v>> \in (DOMAIN exprs) \X (1..2) :
                 /\ exprs[e].op \in RebasedOps
                 /\ v \in DOMAIN exprs[e].vars
                 /\ ReadsIndexOfName(m, exprs[e].vars[v])})

\* lines 110-134: VisitFunc, VisitExport, VisitGlobal, VisitTag,
\* VisitElemSegment, VisitDataSegment on the i-th field
RebaserVisitField(m, i, base, reads) ==
  LET r == RebaserVisitExprList(m, VisitedExprs(m.fields[i]), 1, base, reads) IN
  [module |-> [m EXCEPT !.fields[i] = SetVisitedExprs(@, r.exprs)],
   crashed |-> r.crashed]

----------------------------------------------------------------------------
(* Inputs. *)

ModuleName == "A"
LibName == "B"

\* the sequences of pairwise different elements of S, of length at most n
DistinctSeqs(S, n) ==
  UNION {{s \in [1..k -> S] : \A i, j \in 1..k : i # j => s[i] # s[j]} : k \in 0..n}

\* the sequences over S of length at most n
SeqsUpTo(S, n) == UNION {[1..k -> S] : k \in 0..n}

\* fields of the main module of the combiner specification: an import from the
\* library, third-party imports of two kinds, and local fields
CombinePoolA ==
  { ImportField(LibName, "f", "Func", "$a_f"),
    ImportField("env", "mem", "Memory", "$a_mem"),
    ImportField("env", "log", "Func", "$a_log"),
    FuncField("$a_main", <<Expr("Call", <<NameVar("$a_f")>>)>>),
    MemoryField("$a_m"),
    ExportField("run", "Func", NameVar("$a_main")) }

\* fields of the library module of the combiner specification: imports from the
\* main module of two kinds, third-party imports of two kinds, and local fields
CombinePoolB ==
  { ImportField(ModuleName, "run", "Func", "$b_run"),
    ImportField(ModuleName, "m", "Memory", "$b_am"),
    ImportField("env", "mem", "Memory", "$b_mem"),
    ImportField("env", "log", "Func", "$b_log"),
    FuncField("$b_f", <<>>),
    GlobalField("$b_g", <<>>),
    ExportField("f", "Func", NameVar("$b_f")) }

\* imports of the main module of the resolver specification: two imports from
\* the library that share a bound name across kinds, one whose field the
\* library does not export, a named and an unnamed third-party import
ResolveImportOrder ==
  << ImportField(LibName, "f", "Func", "$x"),
     ImportField(LibName, "g", "Global", "$x"),
     ImportField(LibName, "missing", "Func", "$y"),
     ImportField("env", "h", "Func", "$h"),
     ImportField("env", "k", "Func", "") >>

Reverse(s) == [i \in 1..Len(s) |-> s[(Len(s) + 1) - i]]

\* every selection of those imports, in that order or in the opposite one
ResolveImportLists ==
  {LET Chosen(f) == \E i \in S : ResolveImportOrder[i] = f IN SelectSeq(o, Chosen) :
     o \in {ResolveImportOrder, Reverse(ResolveImportOrder)},
     S \in SUBSET DOMAIN ResolveImportOrder}

\* instructions of the function body of the resolver specification
ResolveExprPool ==
  { Expr("Call", <<NameVar("$x")>>),
    Expr("Call", <<NameVar("$h")>>),
    Expr("Call", <<IndexVar(0)>>),
    Expr("LocalGet", <<IndexVar(0)>>) }

\* what follows the function in the main module of the resolver specification
ResolveTailPool ==
  { <<>>,
    <<GlobalField("$gl", <<Expr("GlobalGet", <<NameVar("$x")>>)>>)>>,
    <<ExportField("e", "Func", NameVar("$x")), StartField(NameVar("$x"))>>,
    <<ExportField("e", "Global", NameVar("$h")), StartField(NameVar("$main"))>>,
    <<ExportField("e", "Global", NameVar("$h")), StartField(NameVar("$x"))>>,
    <<TableField("$t"),
      ElemSegmentField(NameVar("$t"), <<Expr("GlobalGet", <<NameVar("$x")>>)>>,
                       <<Expr("RefFunc", <<NameVar("$x")>>)>>)>>,
    <<MemoryField("$mem"),
      DataSegmentField(IndexVar(0), <<Expr("GlobalGet", <<NameVar("$gone")>>)>>)>> }

\* library modules of the resolver specification: one whose exports all have a
\* target, one with an export by index and an export whose target is missing
ResolveLibPool ==
  { <<FuncField("$lf", <<>>), GlobalField("$lg", <<>>),
      ExportField("f", "Func", NameVar("$lf")),
      ExportField("g", "Global", NameVar("$lg"))>>,
    <<FuncField("$lf", <<>>),
      ExportField("f", "Func", IndexVar(0)),
      ExportField("g", "Global", NameVar("$gone"))>> }

\* the memories of the modules given to the checker and to the rebaser: one
\* imported and one local memory, or two local ones
MemoryPrefixPool ==
  { <<ImportField("env", "mem", "Memory", "$m0"), MemoryField("$m1")>>,
    <<MemoryField("$m0"), MemoryField("$m1")>> }

\* instructions of the first function of those modules
MemoryExprPool ==
  { Expr("Store", <<IndexVar(0)>>),
    Expr("Store", <<IndexVar(1)>>),
    Expr("Store", <<NameVar("$m1")>>),
    Expr("Load", <<IndexVar(0)>>),
    Expr("MemoryCopy", <<IndexVar(0), IndexVar(1)>>),
    Expr("MemoryCopy", <<IndexVar(1), IndexVar(0)>>),
    Expr("MemorySize", <<IndexVar(0)>>),
    Expr("Nop", <<>>) }

\* what follows the first function in those modules
MemoryTailPool ==
  { <<>>,
    <<FuncField("$g", <<Expr("Store", <<IndexVar(0)>>)>>)>>,
    <<ExportField("e", "Memory", IndexVar(0)),
      GlobalField("$gl", <<Expr("MemoryGrow", <<IndexVar(0)>>)>>)>>,
    <<TagField("$tg"), TableField("$t"),
      ElemSegmentField(IndexVar(0), <<Expr("MemoryInit", <<IndexVar(0)>>)>>, <<>>)>>,
    <<DataSegmentField(IndexVar(1), <<Expr("MemoryFill", <<IndexVar(1)>>)>>)>>,
    <<FuncField("$g", <<Expr("Load", <<IndexVar(0)>>), Expr("Store", <<IndexVar(1)>>)>>),
      DataSegmentField(IndexVar(0), <<Expr("MemoryFill", <<IndexVar(0)>>)>>)>> }

MemoryModules ==
  {[name |-> ModuleName, fields |-> (ms \o <<FuncField("$f", es)>>) \o tl] :
     ms \in MemoryPrefixPool,
     es \in SeqsUpTo(MemoryExprPool, MaxExprs),
     tl \in MemoryTailPool}

----------------------------------------------------------------------------
(* The state machine. *)

InitCommon ==
  /\ output = [name |-> "", fields |-> <<>>]
  /\ temp_module = <<>>
  /\ temp_libmodule = <<>>
  /\ import_map = EmptyMap
  /\ resolve_result = "NotRun"
  /\ pc = "start"
  /\ module0 = module
  /\ libmodule0 = libmodule
  /\ cm_module = module
  /\ cm_libmodule = libmodule

\* the checker and the rebaser are not constructed
InitNoVisitor ==
  /\ rw_idx_ = 0
  /\ memidx_base_ = 0
  /\ result_ = "Ok"
  /\ cursor = 0
  /\ calls = <<>>
  /\ ret = "None"

\* no ProgramMain runs: the functions are called as a library
InitNoMain ==
  /\ result = "Ok"
  /\ result_lib = "Ok"
  /\ steps = <<>>
  /\ exit_code = -1
  /\ s_validate = TRUE
  /\ s_resolve_names = TRUE
  /\ s_allowed = {}
  /\ s_not_allowed = {}
  /\ module_exports = <<>>
  /\ it = 0

InitCombine ==
  /\ module \in {[name |-> ModuleName, fields |-> fs] :
                   fs \in DistinctSeqs(CombinePoolA, MaxFields)}
  /\ libmodule \in {[name |-> LibName, fields |-> fs] :
                      fs \in DistinctSeqs(CombinePoolB, MaxFields)}
  /\ InitCommon
  /\ InitNoVisitor
  /\ InitNoMain

InitResolve ==
  /\ module \in {[name |-> ModuleName,
                  fields |-> (is \o <<FuncField("$main", es)>>) \o tl] :
                   is \in ResolveImportLists,
                   es \in SeqsUpTo(ResolveExprPool, MaxExprs),
                   tl \in ResolveTailPool}
  /\ libmodule \in {[name |-> LibName, fields |-> fs] : fs \in ResolveLibPool}
  /\ InitCommon
  /\ InitNoVisitor
  /\ InitNoMain

\* resolve-imports.cc line 499: ImportMapConstructor(module, libmodule, import_map)
ImportMapConstructor ==
  /\ pc = "start"
  /\ \E ubs \in [1..Len(UnboundImports(module, libmodule)) -> UBOutcomes(libmodule)] :
       LET r == ImportMapLoop(Imports(module), libmodule, import_map, ubs) IN
       /\ import_map' = r.map
       /\ pc' = IF r.crashed THEN "crashed" ELSE "map_built"
  /\ UNCHANGED <<module, libmodule, output, temp_module, temp_libmodule,
                 resolve_result, module0, libmodule0, cm_module, cm_libmodule>>
  /\ UNCHANGED visitorvars
  /\ UNCHANGED mainvars

\* resolve-imports.cc lines 500-501: return resolver.VisitModule(module)
ResolveImports ==
  /\ pc = "map_built"
  /\ LET r == VisitModule(module, import_map) IN
       /\ module' = r.module
       /\ resolve_result' = r.result
  /\ pc' = "resolved"
  /\ UNCHANGED <<libmodule, output, temp_module, temp_libmodule, import_map,
                 module0, libmodule0, cm_module, cm_libmodule>>
  /\ UNCHANGED visitorvars
  /\ UNCHANGED mainvars

\* combine-modules.cc lines 15-17: CombineModules is entered, by wasmlink only
\* after ResolveImports succeeded (wasmlink.cc lines 172-174)
CombineModules ==
  /\ pc \in {"start", "resolved"}
  /\ pc = "resolved" => resolve_result = "Ok"
  /\ cm_module' = module
  /\ cm_libmodule' = libmodule
  /\ temp_module' = <<>>
  /\ temp_libmodule' = <<>>
  /\ pc' = "combine"
  /\ UNCHANGED <<module, libmodule, output, import_map, resolve_result,
                 module0, libmodule0>>
  /\ UNCHANGED visitorvars
  /\ UNCHANGED mainvars

\* combine-modules.cc lines 20-30: one iteration of the loop over module->fields
CombineModuleLoop ==
  /\ pc = "combine"
  /\ module.fields # <<>>
  /\ LET field == Head(module.fields) IN
       /\ module' = [module EXCEPT !.fields = Tail(@)]
       /\ IF IsImport(field)
          THEN /\ output' = IF RetainModuleImport(field, libmodule)
                            THEN [output EXCEPT !.fields = Append(@, field)]
                            ELSE output
               /\ temp_module' = temp_module
          ELSE /\ temp_module' = Append(temp_module, field)
               /\ output' = output
  /\ UNCHANGED <<libmodule, temp_libmodule, import_map, resolve_result, pc,
                 module0, libmodule0, cm_module, cm_libmodule>>
  /\ UNCHANGED visitorvars
  /\ UNCHANGED mainvars

\* combine-modules.cc lines 33-43: one iteration of the loop over libmodule->fields
CombineLibLoop ==
  /\ pc = "combine"
  /\ module.fields = <<>>
  /\ libmodule.fields # <<>>
  /\ LET field == Head(libmodule.fields) IN
       /\ libmodule' = [libmodule EXCEPT !.fields = Tail(@)]
       /\ IF IsImport(field)
          THEN /\ output' = IF RetainLibImport(field, module)
                            THEN [output EXCEPT !.fields = Append(@, field)]
                            ELSE output
               /\ temp_libmodule' = temp_libmodule
          ELSE /\ temp_libmodule' = Append(temp_libmodule, field)
               /\ output' = output
  /\ UNCHANGED <<module, temp_module, import_map, resolve_result, pc,
                 module0, libmodule0, cm_module, cm_libmodule>>
  /\ UNCHANGED visitorvars
  /\ UNCHANGED mainvars

\* combine-modules.cc lines 45-51: both temporaries are moved into result
CombineAppend ==
  /\ pc = "combine"
  /\ module.fields = <<>>
  /\ libmodule.fields = <<>>
  /\ output' = [output EXCEPT !.fields = AppendRest(@, temp_module, temp_libmodule)]
  /\ temp_module' = <<>>
  /\ temp_libmodule' = <<>>
  /\ pc' = "done"
  /\ UNCHANGED <<module, libmodule, import_map, resolve_result,
                 module0, libmodule0, cm_module, cm_libmodule>>
  /\ UNCHANGED visitorvars
  /\ UNCHANGED mainvars

\* ResolveImports and CombineModules are not called
InitNoLink ==
  /\ libmodule = [name |-> "", fields |-> <<>>]
  /\ InitCommon

\* access-checker.cc lines 162-163: RebaseIndexModule(module, errors, rw_idx)
\* has constructed the checker
InitChecker ==
  /\ module \in MemoryModules
  /\ rw_idx_ \in 0..MaxIndex
  /\ memidx_base_ = 0
  /\ result_ = "Ok"
  /\ cursor = 0
  /\ calls = <<>>
  /\ ret = "None"
  /\ InitNoLink
  /\ InitNoMain

\* access-checker.cc lines 131-142: one iteration of the loops of VisitModule
CheckerVisitModule ==
  /\ pc = "start"
  /\ cursor < Len(VisitModuleFields(module))
  /\ cursor' = cursor + 1
  /\ calls' = calls \o CheckerVisitField(module, VisitModuleFields(module)[cursor + 1],
                                         rw_idx_)
  /\ UNCHANGED <<module, module0, pc, rw_idx_, memidx_base_, result_, ret>>
  /\ UNCHANGED linkvars
  /\ UNCHANGED mainvars

\* access-checker.cc lines 143-144 and 164: return result_
CheckerReturn ==
  /\ pc = "start"
  /\ cursor = Len(VisitModuleFields(module))
  /\ ret' = result_
  /\ pc' = "returned"
  /\ UNCHANGED <<module, module0, rw_idx_, memidx_base_, result_, cursor, calls>>
  /\ UNCHANGED linkvars
  /\ UNCHANGED mainvars

NextChecker ==
  \/ CheckerVisitModule
  \/ CheckerReturn

\* the access checker over the modules with memories
SpecChecker == InitChecker /\ [][NextChecker]_vars

\* part_000 lines 170-171: RebaseIndexModule(module, errors, memidx_base) has
\* constructed the rebaser
InitRebaser ==
  /\ module \in MemoryModules
  /\ memidx_base_ \in 0..(MaxIndex + 1)
  /\ rw_idx_ = 0
  /\ result_ = "Ok"
  /\ cursor = 0
  /\ calls = <<>>
  /\ ret = "None"
  /\ InitNoLink
  /\ InitNoMain

\* part_000 lines 139-150: one iteration of the loops of VisitModule
RebaserVisitModule ==
  /\ pc = "start"
  /\ cursor < Len(VisitModuleFields(module))
  /\ LET i == VisitModuleFields(module)[cursor + 1] IN
     \E reads \in [1..NameReads(module, VisitedExprs(module.fields[i]))
                     -> IndexOfNameOutcomes] :
       \E r \in {RebaserVisitField(module, i, memidx_base_, reads)} :
         /\ module' = r.module
         /\ pc' = IF r.crashed THEN "crashed" ELSE pc
         /\ cursor' = IF r.crashed THEN cursor ELSE cursor + 1
  /\ UNCHANGED <<module0, rw_idx_, memidx_base_, result_, calls, ret>>
  /\ UNCHANGED linkvars
  /\ UNCHANGED mainvars

\* part_000 lines 151-152 and 172: return result_
RebaserReturn ==
  /\ pc = "start"
  /\ cursor = Len(VisitModuleFields(module))
  /\ ret' = result_
  /\ pc' = "returned"
  /\ UNCHANGED <<module, module0, rw_idx_, memidx_base_, result_, cursor, calls>>
  /\ UNCHANGED linkvars
  /\ UNCHANGED mainvars

NextRebaser ==
  \/ RebaserVisitModule
  \/ RebaserReturn

\* the index rebaser over the modules with memories
SpecRebaser == InitRebaser /\ [][NextRebaser]_vars

----------------------------------------------------------------------------
(* wasmlink (wasmlink.cc): ProgramMain. *)

Results == {"Ok", "Error"}

Succeeded(r) == r = "Ok"

\* a call made by ProgramMain: the function, the module it is given, and what
\* it returned
Step(name, arg, r) == [name |-> name, arg |-> arg, result |-> r]

\* result_lib not looked at
ExitCode_ResultOnly(r, rl) == IF r # "Ok" THEN 1 ELSE 0

\* line 194: return result != Result::Ok || result_lib != Result::Ok
ExitCode(r, rl) == IF r # "Ok" \/ rl # "Ok" THEN 1 ELSE 0

\* ParseOptions has run (line 129): any combination of --no-check and
\* --no-resolve-names
InitLink ==
  /\ module = [name |-> ModuleName, fields |-> <<>>]
  /\ libmodule = [name |-> LibName, fields |-> <<>>]
  /\ InitCommon
  /\ InitNoVisitor
  /\ result = "Ok"
  /\ result_lib = "Ok"
  /\ steps = <<>>
  /\ exit_code = -1
  /\ s_validate \in BOOLEAN
  /\ s_resolve_names \in BOOLEAN
  /\ s_allowed = {}
  /\ s_not_allowed = {}
  /\ module_exports = <<>>
  /\ it = 0

\* a step of ProgramMain that runs one function on module and on libmodule
\* when enabled is true, and nothing otherwise
LinkBoth(from, to, enabled, name) ==
  /\ pc = from
  /\ pc' = to
  /\ IF enabled
     THEN \E r \in Results, rl \in Results :
            /\ result' = r
            /\ result_lib' = rl
            /\ steps' = steps \o <<Step(name, "module", r), Step(name, "libmodule", rl)>>
     ELSE UNCHANGED <<result, result_lib, steps>>
  /\ UNCHANGED <<module, module0, exit_code, s_validate, s_resolve_names,
                 s_allowed, s_not_allowed, module_exports, it>>
  /\ UNCHANGED linkvars
  /\ UNCHANGED visitorvars

\* a step of ProgramMain that runs one function, whose result is one of rs,
\* when enabled is true, and nothing otherwise
LinkOne(from, to, enabled, name, arg, rs) ==
  /\ pc = from
  /\ pc' = to
  /\ IF enabled
     THEN \E r \in rs :
            /\ result' = r
            /\ steps' = Append(steps, Step(name, arg, r))
     ELSE UNCHANGED <<result, steps>>
  /\ UNCHANGED <<module, module0, result_lib, exit_code, s_validate, s_resolve_names,
                 s_allowed, s_not_allowed, module_exports, it>>
  /\ UNCHANGED linkvars
  /\ UNCHANGED visitorvars

\* lines 133-135
LinkReadFile == LinkBoth("start", "read", TRUE, "ReadFile")

\* lines 135-150: the files are parsed when both were read
LinkReadBinaryIr ==
  IF Succeeded(result) /\ Succeeded(result_lib)
  THEN LinkBoth("read", "parsed", TRUE, "ReadBinaryIr")
  ELSE LinkBoth("read", "return", FALSE, "ReadBinaryIr")

\* lines 150-155: nothing below line 150 runs unless both files were parsed
LinkValidateModule ==
  IF Succeeded(result) /\ Succeeded(result_lib)
  THEN LinkBoth("parsed", "validated", s_validate, "ValidateModule")
  ELSE LinkBoth("parsed", "return", FALSE, "ValidateModule")

\* lines 157-160
LinkGeneratePrefixNames ==
  LinkBoth("validated", "prefixed", Succeeded(result) /\ Succeeded(result_lib),
           "GeneratePrefixNames")

\* lines 162-165
LinkApplyNames ==
  LinkBoth("prefixed", "named", Succeeded(result) /\ Succeeded(result_lib),
           "ApplyNames")

\* lines 167-170
LinkResolveImports ==
  LinkOne("named", "resolved", Succeeded(result) /\ Succeeded(result_lib),
          "ResolveImports", "module", Results)

\* lines 172-174: CombineModules returns Ok (combine-modules.cc line 51)
LinkCombineModules ==
  LinkOne("resolved", "combined", Succeeded(result), "CombineModules", "output", {"Ok"})

\* lines 176-178
LinkResolveNamesModule ==
  LinkOne("combined", "indexed", Succeeded(result) /\ s_resolve_names,
          "ResolveNamesModule", "output", Results)

\* lines 180-183
LinkValidateOutput ==
  LinkOne("indexed", "checked", Succeeded(result) /\ s_validate,
          "ValidateModule", "output", Results)

\* lines 185-188
LinkWriteBinaryModule ==
  LinkOne("checked", IF Succeeded(result) THEN "encoded" ELSE "return",
          Succeeded(result), "WriteBinaryModule", "output", Results)

\* line 189: stream.WriteToFile(s_outfile), whose Result is dropped
LinkWriteToFile ==
  /\ pc = "encoded"
  /\ pc' = "return"
  /\ \E r \in Results : steps' = Append(steps, Step("WriteToFile", "output", r))
  /\ UNCHANGED <<module, module0, result, result_lib, exit_code, s_validate,
                 s_resolve_names, s_allowed, s_not_allowed, module_exports, it>>
  /\ UNCHANGED linkvars
  /\ UNCHANGED visitorvars

\* line 194
LinkReturn ==
  /\ pc = "return"
  /\ pc' = "exited"
  /\ exit_code' = ExitCode(result, result_lib)
  /\ UNCHANGED <<module, module0, result, result_lib, steps, s_validate,
                 s_resolve_names, s_allowed, s_not_allowed, module_exports, it>>
  /\ UNCHANGED linkvars
  /\ UNCHANGED visitorvars

NextLink ==
  \/ LinkReadFile
  \/ LinkReadBinaryIr
  \/ LinkValidateModule
  \/ LinkGeneratePrefixNames
  \/ LinkApplyNames
  \/ LinkResolveImports
  \/ LinkCombineModules
  \/ LinkResolveNamesModule
  \/ LinkValidateOutput
  \/ LinkWriteBinaryModule
  \/ LinkWriteToFile
  \/ LinkReturn

\* one invocation of wasmlink
SpecLink == InitLink /\ [][NextLink]_vars

----------------------------------------------------------------------------
(* import-check (access-checker.cc lines 169-308): ProgramMain. *)

\* only the allow-list looked at
ImportRejected_AllowOnly(module_name, allowed, not_allowed) ==
  allowed # {} /\ module_name \notin allowed

\* lines 286-296: the tests on one import's module name
ImportRejected(module_name, allowed, not_allowed) ==
  IF allowed # {} THEN module_name \notin allowed
  ELSE IF not_allowed # {} THEN module_name \in not_allowed
  ELSE FALSE

\* imports of the module given to import-check
ImportCheckPool ==
  { ImportField("env", "mem", "Memory", "$m"),
    ImportField("env", "log", "Func", "$l"),
    ImportField("wasi", "fd_write", "Func", "$w"),
    ImportField("fix", "attach", "Func", "$a") }

\* ParseOptions has run (line 264): the file holds a module, and -i and -e
\* were given any number of times
InitImportCheck ==
  /\ module \in {[name |-> ModuleName, fields |-> is \o <<FuncField("$main", <<>>)>>] :
                   is \in DistinctSeqs(ImportCheckPool, MaxFields)}
  /\ InitNoLink
  /\ InitNoVisitor
  /\ result = "Ok"
  /\ result_lib = "Ok"
  /\ steps = <<>>
  /\ exit_code = -1
  /\ s_validate = TRUE
  /\ s_resolve_names = TRUE
  /\ s_allowed \in SUBSET {"env", "wasi"}
  /\ s_not_allowed \in SUBSET {"env", "fix"}
  /\ module_exports = <<>>
  /\ it = 0

\* lines 266-269
ImportCheckOptions ==
  /\ pc = "start"
  /\ IF s_allowed # {} /\ s_not_allowed # {}
     THEN exit_code' = 1 /\ pc' = "exited"
     ELSE exit_code' = exit_code /\ pc' = "options_ok"
  /\ UNCHANGED <<module, module0, result, result_lib, steps, s_validate,
                 s_resolve_names, s_allowed, s_not_allowed, module_exports, it>>
  /\ UNCHANGED linkvars
  /\ UNCHANGED visitorvars

\* lines 271-274
ImportCheckReadFile ==
  /\ pc = "options_ok"
  /\ \E r \in Results :
       /\ result' = r
       /\ steps' = Append(steps, Step("ReadFile", "module", r))
       /\ pc' = IF Succeeded(r) THEN "read" ELSE "return"
  /\ UNCHANGED <<module, module0, result_lib, exit_code, s_validate,
                 s_resolve_names, s_allowed, s_not_allowed, module_exports, it>>
  /\ UNCHANGED linkvars
  /\ UNCHANGED visitorvars

\* lines 275-282: the module is parsed and the loop over module.imports begins
ImportCheckReadBinaryIr ==
  /\ pc = "read"
  /\ \E r \in Results :
       /\ result' = r
       /\ steps' = Append(steps, Step("ReadBinaryIr", "module", r))
       /\ pc' = IF Succeeded(r) THEN "loop" ELSE "return"
  /\ it' = 1
  /\ UNCHANGED <<module, module0, result_lib, exit_code, s_validate,
                 s_resolve_names, s_allowed, s_not_allowed, module_exports>>
  /\ UNCHANGED linkvars
  /\ UNCHANGED visitorvars

\* lines 282-297: one iteration of the loop over module.imports
ImportCheckLoop ==
  /\ pc = "loop"
  /\ it <= Len(Imports(module))
  /\ IF ImportRejected(Imports(module)[it].module_name, s_allowed, s_not_allowed)
     THEN exit_code' = 1 /\ pc' = "exited" /\ it' = it
     ELSE exit_code' = exit_code /\ pc' = pc /\ it' = it + 1
  /\ UNCHANGED <<module, module0, result, result_lib, steps, s_validate,
                 s_resolve_names, s_allowed, s_not_allowed, module_exports>>
  /\ UNCHANGED linkvars
  /\ UNCHANGED visitorvars

\* line 300: return result != Result::Ok
ImportCheckReturn ==
  /\ \/ pc = "return"
     \/ pc = "loop" /\ it > Len(Imports(module))
  /\ exit_code' = IF result # "Ok" THEN 1 ELSE 0
  /\ pc' = "exited"
  /\ UNCHANGED <<module, module0, result, result_lib, steps, s_validate,
                 s_resolve_names, s_allowed, s_not_allowed, module_exports, it>>
  /\ UNCHANGED linkvars
  /\ UNCHANGED visitorvars

NextImportCheck ==
  \/ ImportCheckOptions
  \/ ImportCheckReadFile
  \/ ImportCheckReadBinaryIr
  \/ ImportCheckLoop
  \/ ImportCheckReturn

\* one invocation of import-check
SpecImportCheck == InitImportCheck /\ [][NextImportCheck]_vars

----------------------------------------------------------------------------
(* export-audit (CMakeLists.txt lines 34-206): ProgramMain. *)

\* module.exports.erase(it): the vector without its i-th element
Erase(v, i) == SubSeq(v, 1, i - 1) \o SubSeq(v, i + 1, Len(v))

\* the iterator incremented after an erase as well
ExportLoopBody_SkipAfterErase(v, i, allowed, not_allowed) ==
  IF allowed # {}
  THEN IF v[i].name \in allowed
       THEN [exports |-> v, it |-> i + 1]
       ELSE [exports |-> Erase(v, i), it |-> i + 1]
  ELSE IF not_allowed # {}
  THEN IF v[i].name \in not_allowed
       THEN [exports |-> Erase(v, i), it |-> i + 1]
       ELSE [exports |-> v, it |-> i + 1]
  ELSE [exports |-> v, it |-> i]

\* lines 162-182: the body of the loop over module.exports, with the iterator
\* at the i-th export: ++it, or it = module.exports.erase(it), or neither when
\* no list is given
ExportLoopBody(v, i, allowed, not_allowed) ==
  IF allowed # {}
  THEN IF v[i].name \in allowed
       THEN [exports |-> v, it |-> i + 1]
       ELSE [exports |-> Erase(v, i), it |-> i]
  ELSE IF not_allowed # {}
  THEN IF v[i].name \in not_allowed
       THEN [exports |-> Erase(v, i), it |-> i]
       ELSE [exports |-> v, it |-> i + 1]
  ELSE [exports |-> v, it |-> i]

\* exports of the module given to export-audit
ExportAuditPool ==
  { ExportField("a", "Func", IndexVar(0)),
    ExportField("b", "Func", IndexVar(0)),
    ExportField("c", "Func", IndexVar(0)),
    ExportField("d", "Func", IndexVar(0)) }

\* ParseOptions has run (line 138): the file holds a module, -e and -r were
\* given any number of times, --no-check was given or not
InitExportAudit ==
  /\ module \in {[name |-> ModuleName, fields |-> <<FuncField("$f", <<>>)>> \o es] :
                   es \in DistinctSeqs(ExportAuditPool, MaxFields + 1)}
  /\ InitNoLink
  /\ InitNoVisitor
  /\ result = "Ok"
  /\ result_lib = "Ok"
  /\ steps = <<>>
  /\ exit_code = -1
  /\ s_validate \in BOOLEAN
  /\ s_resolve_names = TRUE
  /\ s_allowed \in SUBSET {"b", "c"}
  /\ s_not_allowed \in SUBSET {"b", "d"}
  /\ module_exports = <<>>
  /\ it = 0

\* lines 140-143
ExportAuditOptions ==
  /\ pc = "start"
  /\ IF s_allowed # {} /\ s_not_allowed # {}
     THEN exit_code' = 1 /\ pc' = "exited"
     ELSE exit_code' = exit_code /\ pc' = "options_ok"
  /\ UNCHANGED <<module, module0, result, result_lib, steps, s_validate,
                 s_resolve_names, s_allowed, s_not_allowed, module_exports, it>>
  /\ UNCHANGED linkvars
  /\ UNCHANGED visitorvars

\* lines 145-148
ExportAuditReadFile ==
  /\ pc = "options_ok"
  /\ \E r \in Results :
       /\ result' = r
       /\ steps' = Append(steps, Step("ReadFile", "module", r))
       /\ pc' = IF Succeeded(r) THEN "read" ELSE "return"
  /\ UNCHANGED <<module, module0, result_lib, exit_code, s_validate,
                 s_resolve_names, s_allowed, s_not_allowed, module_exports, it>>
  /\ UNCHANGED linkvars
  /\ UNCHANGED visitorvars

\* lines 149-155: the module is parsed; module.exports holds its exports
ExportAuditReadBinaryIr ==
  /\ pc = "read"
  /\ \E r \in Results :
       /\ result' = r
       /\ steps' = Append(steps, Step("ReadBinaryIr", "module", r))
       /\ pc' = IF Succeeded(r) THEN "parsed" ELSE "return"
       /\ module_exports' = IF Succeeded(r) THEN Exports(module) ELSE module_exports
  /\ UNCHANGED <<module, module0, result_lib, exit_code, s_validate,
                 s_resolve_names, s_allowed, s_not_allowed, it>>
  /\ UNCHANGED linkvars
  /\ UNCHANGED visitorvars

\* lines 156-161: the module is validated unless --no-check was given, and the
\* loop over module.exports begins whatever the validator returned
ExportAuditValidateModule ==
  /\ pc = "parsed"
  /\ IF s_validate
     THEN \E r \in Results :
            /\ result' = r
            /\ steps' = Append(steps, Step("ValidateModule", "module", r))
     ELSE UNCHANGED <<result, steps>>
  /\ it' = 1
  /\ pc' = "loop"
  /\ UNCHANGED <<module, module0, result_lib, exit_code, s_validate,
                 s_resolve_names, s_allowed, s_not_allowed, module_exports>>
  /\ UNCHANGED linkvars
  /\ UNCHANGED visitorvars

\* line 161: the loop's test, it != module.exports.end(), is true and the body
\* is entered
ExportAuditLoopTest ==
  /\ pc = "loop"
  /\ it <= Len(module_exports)
  /\ pc' = "body"
  /\ UNCHANGED <<module, module0, result, result_lib, steps, exit_code, s_validate,
                 s_resolve_names, s_allowed, s_not_allowed, module_exports, it>>
  /\ UNCHANGED linkvars
  /\ UNCHANGED visitorvars

\* lines 162-183: the body of the loop over module.exports runs once and
\* control is back at the test
ExportAuditLoop ==
  /\ pc = "body"
  /\ \E r \in {ExportLoopBody(module_exports, it, s_allowed, s_not_allowed)} :
       /\ module_exports' = r.exports
       /\ it' = r.it
  /\ pc' = "loop"
  /\ UNCHANGED <<module, module0, result, result_lib, steps, exit_code,
                 s_validate, s_resolve_names, s_allowed, s_not_allowed>>
  /\ UNCHANGED linkvars
  /\ UNCHANGED visitorvars

\* lines 185-190: the loop has ended; the module is encoded if nothing failed
ExportAuditWriteBinaryModule ==
  /\ pc = "loop"
  /\ it > Len(module_exports)
  /\ IF Succeeded(result)
     THEN \E r \in Results :
            /\ result' = r
            /\ steps' = Append(steps, Step("WriteBinaryModule", "module", r))
     ELSE UNCHANGED <<result, steps>>
  /\ pc' = "encoded"
  /\ UNCHANGED <<module, module0, result_lib, exit_code, s_validate,
                 s_resolve_names, s_allowed, s_not_allowed, module_exports, it>>
  /\ UNCHANGED linkvars
  /\ UNCHANGED visitorvars

\* lines 192-194: memory_stream.WriteToFile(s_outfile), whose Result is dropped
ExportAuditWriteToFile ==
  /\ pc = "encoded"
  /\ IF Succeeded(result)
     THEN \E r \in Results : steps' = Append(steps, Step("WriteToFile", "module", r))
     ELSE UNCHANGED steps
  /\ pc' = "return"
  /\ UNCHANGED <<module, module0, result, result_lib, exit_code, s_validate,
                 s_resolve_names, s_allowed, s_not_allowed, module_exports, it>>
  /\ UNCHANGED linkvars
  /\ UNCHANGED visitorvars

\* line 198: return result != Result::Ok
ExportAuditReturn ==
  /\ pc = "return"
  /\ exit_code' = IF result # "Ok" THEN 1 ELSE 0
  /\ pc' = "exited"
  /\ UNCHANGED <<module, module0, result, result_lib, steps, s_validate,
                 s_resolve_names, s_allowed, s_not_allowed, module_exports, it>>
  /\ UNCHANGED linkvars
  /\ UNCHANGED visitorvars

NextExportAudit ==
  \/ ExportAuditOptions
  \/ ExportAuditReadFile
  \/ ExportAuditReadBinaryIr
  \/ ExportAuditValidateModule
  \/ ExportAuditLoopTest
  \/ ExportAuditLoop
  \/ ExportAuditWriteBinaryModule
  \/ ExportAuditWriteToFile
  \/ ExportAuditReturn

\* one invocation of export-audit
SpecExportAudit == InitExportAudit /\ [][NextExportAudit]_vars

\* one invocation of export-audit that is never suspended for ever: whenever
\* ProgramMain has a next statement it is eventually executed
SpecExportAuditFair == SpecExportAudit /\ WF_vars(NextExportAudit)

Next ==
  \/ ImportMapConstructor
  \/ ResolveImports
  \/ CombineModules
  \/ CombineModuleLoop
  \/ CombineLibLoop
  \/ CombineAppend

NextResolve ==
  \/ ImportMapConstructor
  \/ ResolveImports

\* ResolveImports then CombineModules, or CombineModules alone, over the
\* combiner inputs
SpecCombine == InitCombine /\ [][Next]_vars

\* ResolveImports over the resolver inputs
SpecResolve == InitResolve /\ [][NextResolve]_vars

----------------------------------------------------------------------------
(* Properties of CombineModules, over SpecCombine. *)

InSeq(s, f) == \E i \in DOMAIN s : s[i] = f
CountOf(s, f) == Cardinality({i \in DOMAIN s : s[i] = f})
NonImports(m) == SelectSeq(m.fields, IsNotImport)
LocalCount(m, k) == Cardinality({i \in DOMAIN m.fields : m.fields[i].type = k})

\* an import of one input module that names the other input module
CrossImports(m, other) ==
  LET Cross(f) == IsImport(f) /\ f.module_name = other.name
  IN SelectSeq(m.fields, Cross)

\* the imports of an input module that CombineModules put into the output
RetainedImports(m) ==
  LET Kept(f) == IsImport(f) /\ InSeq(output.fields, f)
  IN SelectSeq(m.fields, Kept)

\* C1: after ResolveImports(A, B) and CombineModules(A, B, out), out holds no
\* Import field whose source module name is A's name or B's name.
C1_NoImportNamesAnInput ==
  (pc = "done" /\ resolve_result = "Ok") =>
    \A i \in DOMAIN output.fields :
      IsImport(output.fields[i]) =>
        output.fields[i].module_name \notin {cm_module.name, cm_libmodule.name}

\* C2: an Import field of libmodule is in the output if and only if its source
\* module name differs from module.name.
C2_LibImportKeptIffNotFromModule ==
  pc = "done" =>
    \A i \in DOMAIN cm_libmodule.fields :
      LET f == cm_libmodule.fields[i] IN
      IsImport(f) => (InSeq(output.fields, f) <=> f.module_name # cm_module.name)

C4_ThirdPartyImportsKeptOnce ==
  pc = "done" =>
    \A m \in {cm_module, cm_libmodule} : \A i \in DOMAIN m.fields :
      LET f == m.fields[i] IN
      (IsImport(f) /\ f.module_name \notin {cm_module.name, cm_libmodule.name})
        => CountOf(output.fields, f) = 1

\* C5: the output field sequence is module's retained imports, then
\* libmodule's retained imports, then module's non-Import fields, then
\* libmodule's non-Import fields, each group in its input order.
C5_OutputIsConcatenation ==
  pc = "done" =>
    output.fields = ((RetainedImports(cm_module) \o RetainedImports(cm_libmodule))
                     \o NonImports(cm_module)) \o NonImports(cm_libmodule)

\* C5 witness: CombineModules has returned with all four groups non-empty.
C5_Witness ==
  /\ pc = "done"
  /\ RetainedImports(cm_module) # <<>>
  /\ RetainedImports(cm_libmodule) # <<>>
  /\ NonImports(cm_module) # <<>>
  /\ NonImports(cm_libmodule) # <<>>

\* C6: the output has |module.fields| + |libmodule.fields| fields minus the
\* cross-pair imports; every other field is in the output exactly once.
C6_FieldCountMinusCrossImports ==
  pc = "done" =>
    /\ Len(output.fields) =
         (Len(cm_module.fields) + Len(cm_libmodule.fields))
         - (Len(CrossImports(cm_module, cm_libmodule))
            + Len(CrossImports(cm_libmodule, cm_module)))
    /\ \A i \in DOMAIN cm_module.fields :
         ~InSeq(CrossImports(cm_module, cm_libmodule), cm_module.fields[i])
           => CountOf(output.fields, cm_module.fields[i]) = 1
    /\ \A i \in DOMAIN cm_libmodule.fields :
         ~InSeq(CrossImports(cm_libmodule, cm_module), cm_libmodule.fields[i])
           => CountOf(output.fields, cm_libmodule.fields[i]) = 1

\* C7: for each kind, the output has as many locally defined declarations of
\* that kind as the two inputs together.
C7_LocalCountsAdd ==
  pc = "done" =>
    \A k \in Kinds :
      LocalCount(output, k) = LocalCount(cm_module, k) + LocalCount(cm_libmodule, k)

\* C7 witness: CombineModules has returned for two inputs that each define a
\* function locally, the main module a memory and the library a global.
C7_Witness ==
  /\ pc = "done"
  /\ LocalCount(cm_module, "Func") = 1
  /\ LocalCount(cm_libmodule, "Func") = 1
  /\ LocalCount(cm_module, "Memory") = 1
  /\ LocalCount(cm_libmodule, "Global") = 1
  /\ LocalCount(output, "Func") = 2
  /\ LocalCount(output, "Global") = 1

\* C24: in the output of CombineModules every Import field precedes every
\* non-Import field, so that in each index space of the output the imported
\* declarations come before the local ones, and both input modules' field
\* lists are empty.
C24_ImportsFirstInputsEmptied ==
  pc = "done" =>
    /\ \A i, j \in DOMAIN output.fields :
         (IsImport(output.fields[j]) /\ IsNotImport(output.fields[i])) => j < i
    /\ \A k \in Kinds :
         \A i, j \in DOMAIN Decls(output, k) :
           (IsImport(Decls(output, k)[j]) /\ IsNotImport(Decls(output, k)[i])) => j < i
    /\ module.fields = <<>>
    /\ libmodule.fields = <<>>

\* C24 witness: CombineModules has returned for a module whose first field is
\* not an import and a library with an import; the output has an imported and
\* a local function, in that order, and the inputs, which had fields, have
\* none.
C24_Witness ==
  /\ pc = "done"
  /\ cm_module.fields # <<>> /\ IsNotImport(cm_module.fields[1])
  /\ cm_libmodule.fields # <<>>
  /\ module.fields = <<>> /\ libmodule.fields = <<>>
  /\ InSeq(output.fields, cm_module.fields[1])
  /\ \E i \in DOMAIN cm_libmodule.fields :
       IsImport(cm_libmodule.fields[i]) /\ InSeq(output.fields, cm_libmodule.fields[i])
  /\ Len(Decls(output, "Func")) >= 2
  /\ IsImport(Decls(output, "Func")[1])
  /\ IsNotImport(Decls(output, "Func")[Len(Decls(output, "Func"))])

----------------------------------------------------------------------------
(* Properties of ResolveImports, over SpecResolve. *)

\* the kind-specific lookup of the Var at a location of the input module
LookupAt(loc) == GetDecl(module0, LocKind(module0, loc), LocVar(module0, loc))

\* the traversal gets to the i-th of the Vars locs: no lookup under
\* CHECK_RESULT failed before it
Reached(locs, i) ==
  \A j \in 1..(i - 1) : LocChecked(module0, locs[j]) => LookupAt(locs[j]) # Null

\* the i-th Var is handed to ResolveImportForVar
Visited(locs, i) == Reached(locs, i) /\ LookupAt(locs[i]) # Null

MappedName(n) == IF n \in DOMAIN import_map THEN import_map[n] ELSE n

\* C8: a name-form reference handed to ResolveImportForVar becomes
\* import_map[name] when its name is a key of the import map and keeps its
\* name when it is not; a name that is not a key is never changed.
C8_NameRefsRewrittenByMap ==
  pc = "resolved" =>
    LET locs == RefLocs(module0) IN
    \A i \in DOMAIN locs :
      LET v0 == LocVar(module0, locs[i])
          v1 == LocVar(module, locs[i])
      IN v0.type = "Name" =>
           /\ Visited(locs, i) => v1 = NameVar(MappedName(v0.name))
           /\ v0.name \notin DOMAIN import_map => v1 = v0

\* C8 witness: the pass returned Ok after rewriting a name that is a key of the
\* map to a different name and visiting a name that is not a key.
C8_Witness ==
  /\ pc = "resolved"
  /\ resolve_result = "Ok"
  /\ LET locs == RefLocs(module0) IN
     \E i, j \in DOMAIN locs :
       /\ LocVar(module0, locs[i]).type = "Name"
       /\ Visited(locs, i)
       /\ LocVar(module0, locs[i]).name \in DOMAIN import_map
       /\ LocVar(module, locs[i]) # LocVar(module0, locs[i])
       /\ LocVar(module0, locs[j]).type = "Name"
       /\ Visited(locs, j)
       /\ LocVar(module0, locs[j]).name \notin DOMAIN import_map
       /\ LocVar(module, locs[j]) = LocVar(module0, locs[j])

\* C9 as claimed: a reference that is index-form when ResolveImports visits it
\* is still index-form with the same index after the pass.
C9_IndexRefsUntouched ==
  pc = "resolved" =>
    LET locs == RefLocs(module0) IN
    \A i \in DOMAIN locs :
      LocVar(module0, locs[i]).type = "Index"
        => LocVar(module, locs[i]) = LocVar(module0, locs[i])

\* C9 as amended: an index-form reference is left untouched when the
\* declaration it addresses has an empty name or when it is not handed to
\* ResolveImportForVar; when the declaration has a non-empty name the
\* reference becomes name-form, import_map[name] if the name is a key of the
\* import map and the declaration's name otherwise.
C9_IndexRefsNamedByDeclaration ==
  pc = "resolved" =>
    LET locs == RefLocs(module0) IN
    \A i \in DOMAIN locs :
      LET v0 == LocVar(module0, locs[i])
          v1 == LocVar(module, locs[i])
      IN v0.type = "Index" =>
           IF Visited(locs, i) /\ LookupAt(locs[i]).name # ""
           THEN v1 = NameVar(MappedName(LookupAt(locs[i]).name))
           ELSE v1 = v0

\* C9 witness: the pass turned an index-form reference to a declaration whose
\* name is a key of the map into the mapped name.
C9_Witness ==
  /\ pc = "resolved"
  /\ LET locs == RefLocs(module0) IN
     \E i \in DOMAIN locs :
       /\ LocVar(module0, locs[i]).type = "Index"
       /\ Visited(locs, i)
       /\ LookupAt(locs[i]).name \in DOMAIN import_map
       /\ LookupAt(locs[i]).name # ""
       /\ LocVar(module, locs[i]) = NameVar(import_map[LookupAt(locs[i]).name])

\* an import of module from libmodule whose field_name is bound to an export
\* of libmodule whose target declaration exists
BoundWithTarget(f) ==
  /\ ImportFromLib(f, libmodule0)
  /\ FindExport(libmodule0, f.field_name) # 0
  /\ LET e == Exports(libmodule0)[FindExport(libmodule0, f.field_name)]
     IN GetDecl(libmodule0, e.kind, e.var) # Null

\* the symbolic name of the target of the export an import is bound to
TargetName(f) ==
  LET e == Exports(libmodule0)[FindExport(libmodule0, f.field_name)]
  IN GetDecl(libmodule0, e.kind, e.var).name

\* C10 as claimed: after import-map construction the map holds, for every
\* import of module from libmodule bound to an export with an existing target,
\* the entry bound name -> target name, and no entry for an import from
\* another module.
C10_MapHasEveryBoundImport ==
  pc \in {"map_built", "resolved"} =>
    \A i \in DOMAIN Imports(module0) :
      LET f == Imports(module0)[i] IN
      /\ BoundWithTarget(f) =>
           (f.name \in DOMAIN import_map /\ import_map[f.name] = TargetName(f))
      /\ ~ImportFromLib(f, libmodule0) => f.name \notin DOMAIN import_map

\* C10 as amended: the map holds the entry bound name -> target name for every
\* such import that is the first import from libmodule with its bound name
\* (an entry is never overwritten), and every key of the map is the bound name
\* of an import from libmodule.
C10_MapHasFirstBoundImport ==
  pc \in {"map_built", "resolved"} =>
    /\ \A i \in DOMAIN Imports(module0) :
         LET f == Imports(module0)[i] IN
         (/\ BoundWithTarget(f)
          /\ \A j \in 1..(i - 1) :
               ImportFromLib(Imports(module0)[j], libmodule0)
                 => Imports(module0)[j].name # f.name)
           => (f.name \in DOMAIN import_map /\ import_map[f.name] = TargetName(f))
    /\ \A n \in DOMAIN import_map :
         \E i \in DOMAIN Imports(module0) :
           /\ ImportFromLib(Imports(module0)[i], libmodule0)
           /\ Imports(module0)[i].name = n

\* C10 witness: the map was built for a module with two imports from libmodule
\* that share a bound name and have different targets; the entry is the first
\* one's.
C10_Witness ==
  /\ pc = "map_built"
  /\ \E i, j \in DOMAIN Imports(module0) :
       LET f == Imports(module0)[i]
           g == Imports(module0)[j]
       IN /\ i < j
          /\ BoundWithTarget(f) /\ BoundWithTarget(g)
          /\ f.name = g.name
          /\ TargetName(f) # TargetName(g)
          /\ import_map[f.name] = TargetName(f)

\* an import of module from libmodule whose field_name no export of libmodule
\* has, and whose bound name no other import from libmodule shares
UnboundAlone(i) ==
  LET f == Imports(module0)[i] IN
  /\ ImportFromLib(f, libmodule0)
  /\ FindExport(libmodule0, f.field_name) = 0
  /\ \A j \in DOMAIN Imports(module0) :
       (j # i /\ ImportFromLib(Imports(module0)[j], libmodule0))
         => Imports(module0)[j].name # f.name

\* C11: when module imports from libmodule a field that libmodule does not
\* export, import-map construction completes (it reads no export at a
\* non-existent position) and the map has no entry for that import's bound
\* name.
C11_UnboundImportOmitted ==
  /\ pc # "crashed"
  /\ pc \in {"map_built", "resolved"} =>
       \A i \in DOMAIN Imports(module0) :
         UnboundAlone(i) => Imports(module0)[i].name \notin DOMAIN import_map

\* the i-th Var is the first one, in traversal order, whose kind-specific
\* lookup fails
FirstFailedLookup(locs, i) ==
  /\ LookupAt(locs[i]) = Null
  /\ \A j \in 1..(i - 1) : LookupAt(locs[j]) # Null

\* C12: when the kind-specific lookup of a visited reference fails, in a
\* function body, a global initializer, an export, an element segment, a data
\* segment or the start, ResolveImports returns an error and no reference later
\* in traversal order is rewritten.
C12_LookupFailureAborts ==
  pc = "resolved" =>
    LET locs == RefLocs(module0) IN
    \A i \in DOMAIN locs :
      FirstFailedLookup(locs, i) =>
        /\ resolve_result = "Error"
        /\ \A j \in (i + 1)..Len(locs) :
             LocVar(module, locs[j]) = LocVar(module0, locs[j])

\* an import of module from libmodule whose field_name is bound to an export
\* of libmodule whose target the kind-specific lookup does not find, and whose
\* bound name no other import from libmodule shares
MissingTargetAlone(i) ==
  LET f == Imports(module0)[i] IN
  /\ ImportFromLib(f, libmodule0)
  /\ FindExport(libmodule0, f.field_name) # 0
  /\ ~BoundWithTarget(f)
  /\ \A j \in DOMAIN Imports(module0) :
       (j # i /\ ImportFromLib(Imports(module0)[j], libmodule0))
         => Imports(module0)[j].name # f.name

\* C21: when libmodule has an export bound to the import's field_name but the
\* export's target declaration is not found by the kind-specific lookup, the
\* import map gets no entry for the import's bound name, and the references
\* of module that use that name are the same after the rewrite.
C21_MissingTargetSkipped ==
  pc \in {"map_built", "resolved"} =>
    \A i \in DOMAIN Imports(module0) :
      MissingTargetAlone(i) =>
        LET name == Imports(module0)[i].name
            locs == RefLocs(module0)
        IN /\ name \notin DOMAIN import_map
           /\ pc = "resolved" =>
                \A k \in DOMAIN locs :
                  LocVar(module0, locs[k]) = NameVar(name)
                    => LocVar(module, locs[k]) = NameVar(name)

\* the i-th Var is the one whose failed lookup makes the traversal return
\* Error
FailingVisit(locs, i) ==
  /\ Reached(locs, i)
  /\ LocChecked(module0, locs[i])
  /\ LookupAt(locs[i]) = Null

\* what ResolveImportForVar leaves in the i-th Var, a visited one
Rewritten(locs, i) ==
  LET name == LookupAt(locs[i]).name IN
  IF name # "" THEN NameVar(MappedName(name)) ELSE LocVar(module0, locs[i])

\* C22: when ResolveImports returns an error partway through the traversal,
\* the references visited before the failing one are rewritten to their mapped
\* names, the failing one and the later ones are as they were, and the import
\* map holds an entry for the bound name of every import of module from
\* libmodule.
C22_NoRollback ==
  (pc = "resolved" /\ resolve_result = "Error") =>
    LET locs == RefLocs(module0) IN
    /\ \E k \in DOMAIN locs : FailingVisit(locs, k)
    /\ \A k \in DOMAIN locs :
         FailingVisit(locs, k) =>
           /\ \A i \in 1..(k - 1) :
                Visited(locs, i) => LocVar(module, locs[i]) = Rewritten(locs, i)
           /\ \A i \in k..Len(locs) :
                LocVar(module, locs[i]) = LocVar(module0, locs[i])
    /\ DOMAIN import_map =
         {Imports(module0)[i].name :
            i \in {j \in DOMAIN Imports(module0) :
                     ImportFromLib(Imports(module0)[j], libmodule0)}}
    /\ \A i \in DOMAIN Imports(module0) :
         LET f == Imports(module0)[i] IN
         (/\ BoundWithTarget(f)
          /\ \A j \in 1..(i - 1) :
               ImportFromLib(Imports(module0)[j], libmodule0)
                 => Imports(module0)[j].name # f.name)
           => import_map[f.name] = TargetName(f)

\* C22 witness: ResolveImports returned Error after rewriting a reference to
\* its mapped name; a later reference whose name is a key of the map, and
\* whose lookup would succeed, has its original name; the map is not empty.
C22_Witness ==
  /\ pc = "resolved"
  /\ resolve_result = "Error"
  /\ DOMAIN import_map # {}
  /\ LET locs == RefLocs(module0) IN
     \E i, k, j \in DOMAIN locs :
       /\ i < k /\ k < j
       /\ FailingVisit(locs, k)
       /\ Visited(locs, i)
       /\ LocVar(module0, locs[i]).type = "Name"
       /\ LocVar(module0, locs[i]).name \in DOMAIN import_map
       /\ LocVar(module, locs[i]) = NameVar(import_map[LocVar(module0, locs[i]).name])
       /\ LocVar(module, locs[i]) # LocVar(module0, locs[i])
       /\ LookupAt(locs[j]) # Null
       /\ LocVar(module0, locs[j]).type = "Name"
       /\ LocVar(module0, locs[j]).name \in DOMAIN import_map
       /\ LocVar(module, locs[j]) = LocVar(module0, locs[j])

----------------------------------------------------------------------------
(* Properties of the access checker, over SpecChecker. *)

\* an instruction of a function body, a global initializer or a segment offset
InstrAt(m, f, part, e) ==
  CASE part = "exprs" -> m.fields[f].exprs[e]
    [] part = "init_expr" -> m.fields[f].init_expr[e]
    [] part = "offset" -> m.fields[f].offset[e]

\* where the instructions of a module are
InstrPlaces(m) ==
  UNION {LET f == m.fields[i] IN
         CASE f.type = "Func" -> {<<i, "exprs", e>> : e \in DOMAIN f.exprs}
           [] f.type = "Global" -> {<<i, "init_expr", e>> : e \in DOMAIN f.init_expr}
           [] f.type \in {"ElemSegment", "DataSegment"} ->
                {<<i, "offset", e>> : e \in DOMAIN f.offset}
           [] OTHER -> {} :
         i \in DOMAIN m.fields}

MutatingOps == {"Store", "MemoryFill", "MemoryGrow", "MemoryInit", "MemoryCopy"}

\* the memory an instruction writes to or resizes
TargetVar(expr) == IF expr.op = "MemoryCopy" THEN expr.vars[2] ELSE expr.vars[1]

\* a store, memory.fill, memory.grow, memory.init or memory.copy whose target
\* memory has a resolved index below rw_idx
Violating(m, expr, rw) ==
  /\ expr.op \in MutatingOps
  /\ IndexLess(GetMemoryIndex(m, TargetVar(expr)), rw)

HasViolation(m, rw) ==
  \E p \in InstrPlaces(m) : Violating(m, InstrAt(m, p[1], p[2], p[3]), rw)

\* C13: the module-level result of the access checker is an error whenever the
\* module has a store, memory.fill, memory.grow, memory.init or memory.copy
\* destination on a memory whose resolved index is below rw_idx, and Ok when
\* every such instruction targets an index >= rw_idx.
C13_ErrorIffMutationBelowThreshold ==
  pc = "returned" => (ret = "Error" <=> HasViolation(module, rw_idx_))

\* C14: a load and a memory.size are never flagged, whatever memory they
\* address, and a memory.copy is flagged by its destination alone; a module
\* whose accesses to memories below the threshold are only of these forms is
\* accepted.
C14_ReadsNeverFlagged ==
  /\ \A k \in DOMAIN calls :
       LET expr == InstrAt(module, calls[k].f, calls[k].part, calls[k].e) IN
       /\ expr.op \in {"Load", "MemorySize"} => calls[k].result = "Ok"
       /\ expr.op = "MemoryCopy" =>
            (calls[k].result = "Error" <=>
               IndexLess(GetMemoryIndex(module, expr.vars[2]), rw_idx_))
  /\ (pc = "returned" /\ ~HasViolation(module, rw_idx_)) =>
       /\ ret = "Ok"
       /\ \A k \in DOMAIN calls : calls[k].result = "Ok"

\* C14 witness: the checker accepted a module after visiting a load of a
\* memory below the threshold and a memory.copy from such a memory to one at
\* the threshold.
C14_Witness ==
  /\ pc = "returned"
  /\ ret = "Ok"
  /\ ~HasViolation(module, rw_idx_)
  /\ \E j, k \in DOMAIN calls :
       LET ld == InstrAt(module, calls[j].f, calls[j].part, calls[j].e)
           cp == InstrAt(module, calls[k].f, calls[k].part, calls[k].e)
       IN /\ ld.op = "Load"
          /\ IndexLess(GetMemoryIndex(module, ld.vars[1]), rw_idx_)
          /\ cp.op = "MemoryCopy"
          /\ IndexLess(GetMemoryIndex(module, cp.vars[1]), rw_idx_)
          /\ calls[j].result = "Ok"
          /\ calls[k].result = "Ok"

\* C15: the access checker is fail-fast over the whole module: after the
\* callback of the first violating instruction no later instruction is
\* visited, in the same function, a later function, a global initializer or a
\* segment offset, and the result returned is that violation.
C15_FailFastOverModule ==
  /\ \A k \in DOMAIN calls : calls[k].result = "Error" => k = Len(calls)
  /\ (pc = "returned" /\ \E k \in DOMAIN calls : calls[k].result = "Error") =>
       ret = "Error"

----------------------------------------------------------------------------
(* Properties of the index rebaser, over SpecRebaser. *)

\* the positions of the fields the rebaser has walked
RebaserVisited ==
  LET order == VisitModuleFields(module0) IN {order[c] : c \in 1..cursor}

\* C16: the rebaser changes each index-form memory reference of a load, store,
\* memory.copy (source and destination independently), memory.fill,
\* memory.grow, memory.init or memory.size once: an index >= the module's
\* number of imported memories becomes index + (memory_index_base - 1), an
\* index below it stays as it is.
C16_LocalIndexShiftedByBaseMinusOne ==
  pc # "crashed" =>
    LET visited == RebaserVisited
        imports == NumMemoryImports(module0)
    IN \A p \in InstrPlaces(module0) :
         LET e0 == InstrAt(module0, p[1], p[2], p[3])
             e1 == InstrAt(module, p[1], p[2], p[3])
         IN e0.op \in RebasedOps =>
              \A v \in DOMAIN e0.vars :
                e0.vars[v].type = "Index" =>
                  e1.vars[v] =
                    IF p[1] \in visited /\ ~IndexLess(e0.vars[v].index, imports)
                    THEN IndexVar(e0.vars[v].index + (memidx_base_ - 1))
                    ELSE e0.vars[v]

\* C16 witness: with one imported and one local memory and base 3 the rebaser
\* returned, having turned a memory.copy from memory 0 to memory 1 into one
\* from memory 0 to memory 3.
C16_Witness ==
  /\ pc = "returned"
  /\ NumMemoryImports(module0) = 1
  /\ memidx_base_ = 3
  /\ \E p \in InstrPlaces(module0) :
       LET e0 == InstrAt(module0, p[1], p[2], p[3])
           e1 == InstrAt(module, p[1], p[2], p[3])
       IN /\ e0 = Expr("MemoryCopy", <<IndexVar(0), IndexVar(1)>>)
          /\ e1 = Expr("MemoryCopy", <<IndexVar(0), IndexVar(3)>>)

----------------------------------------------------------------------------
(* Properties of wasmlink, over SpecLink. *)

\* a call of the named function has been made and returned r
Ran(name, arg, r) ==
  \E i \in DOMAIN steps : steps[i] = Step(name, arg, r)

\* the calls whose Result ProgramMain keeps: all but WriteToFile
PipelineSteps == SelectSeq(steps, LAMBDA st : st.name # "WriteToFile")

FirstStep(name, arg) ==
  IF \E i \in DOMAIN steps : steps[i].name = name /\ steps[i].arg = arg
  THEN CHOOSE i \in DOMAIN steps :
         /\ steps[i].name = name /\ steps[i].arg = arg
         /\ \A j \in 1..(i - 1) : ~(steps[j].name = name /\ steps[j].arg = arg)
  ELSE 0

\* C20: in wasmlink a failure of a step aborts every later step: no step runs
\* after a failed one (the two calls of one step on module and on libmodule
\* count as one step), CombineModules runs only after ResolveImports
\* succeeded, name resolution only after combine, output validation only
\* after name resolution (when it is not switched off), and the output file is
\* written only if every earlier step, the binary encoding included,
\* succeeded.
C20_FailureAbortsLaterSteps ==
  /\ \A i, j \in DOMAIN steps :
       (i < j /\ steps[i].result = "Error") =>
         (steps[j].name = steps[i].name /\ steps[i].arg = "module"
          /\ steps[j].arg = "libmodule")
  /\ FirstStep("CombineModules", "output") # 0 =>
       Ran("ResolveImports", "module", "Ok")
  /\ FirstStep("ResolveNamesModule", "output") # 0 =>
       Ran("CombineModules", "output", "Ok")
  /\ (FirstStep("ValidateModule", "output") # 0 /\ s_resolve_names) =>
       Ran("ResolveNamesModule", "output", "Ok")
  /\ FirstStep("WriteToFile", "output") # 0 =>
       \A i \in 1..(FirstStep("WriteToFile", "output") - 1) : steps[i].result = "Ok"

----------------------------------------------------------------------------
(* Properties of import-check, over SpecImportCheck. *)

\* some import of the module has a source module name outside the allow-list
OutsideAllowList ==
  \E i \in DOMAIN Imports(module) : Imports(module)[i].module_name \notin s_allowed

\* some import of the module has a source module name in the deny-list
InDenyList ==
  \E i \in DOMAIN Imports(module) : Imports(module)[i].module_name \in s_not_allowed

\* C19: import-check exits with code 1 without reading the module when both
\* lists are given; otherwise, for a module that was parsed, it exits with
\* code 1 if an allow-list is given and some import's source module is outside
\* it or a deny-list is given and some import's source module is in it, and
\* with code 0 if there is no such import.
C19_ExitOneOnDisallowedImport ==
  pc = "exited" =>
    IF s_allowed # {} /\ s_not_allowed # {}
    THEN exit_code = 1 /\ steps = <<>>
    ELSE Ran("ReadBinaryIr", "module", "Ok") =>
           IF \/ s_allowed # {} /\ OutsideAllowList
              \/ s_not_allowed # {} /\ InDenyList
           THEN exit_code = 1
           ELSE exit_code = 0

\* C19 witness: import-check exited with code 1 for a parsed module whose
\* second import comes from a module in the deny-list.
C19_Witness ==
  /\ pc = "exited"
  /\ exit_code = 1
  /\ Ran("ReadBinaryIr", "module", "Ok")
  /\ s_allowed = {}
  /\ Len(Imports(module)) = 2
  /\ Imports(module)[1].module_name \notin s_not_allowed
  /\ Imports(module)[2].module_name \in s_not_allowed

----------------------------------------------------------------------------
(* Properties of export-audit, over SpecExportAudit. *)

\* the loop over module.exports has ended
ExportLoopEnded ==
  /\ Ran("ReadBinaryIr", "module", "Ok")
  /\ pc \in {"encoded", "return", "exited"}

\* C18: with an allow-list the export-audit filter keeps exactly the exports
\* whose name is in it, with a deny-list exactly the exports whose name is not
\* in it, in their original order; this is the module that is written.
C18_ExportsFilteredByList ==
  ExportLoopEnded =>
    /\ s_allowed # {} =>
         module_exports = SelectSeq(Exports(module), LAMBDA e : e.name \in s_allowed)
    /\ (s_allowed = {} /\ s_not_allowed # {}) =>
         module_exports = SelectSeq(Exports(module), LAMBDA e : e.name \notin s_not_allowed)

\* C18 witness: export-audit wrote the module after filtering three exports,
\* of which it kept the second one and erased the other two.
C18_Witness ==
  /\ ExportLoopEnded
  /\ Ran("WriteToFile", "module", "Ok")
  /\ Len(Exports(module)) = 3
  /\ s_allowed # {}
  /\ module_exports = <<Exports(module)[2]>>

\* C23: the loop over module.exports, once entered, ends, whatever the module
\* and the lists: also when neither list is given and the module has an export.
C23_ExportLoopTerminates == (pc = "loop") ~> (pc = "encoded")

====
